---- MODULE Spec2Model ----
(***************************************************************************)
(* The least-squares solver interface LS of cvxpy                          *)
(* (src/cvxpy/problems/solvers/ls_intf.py): suitable, get_sym_data, solve  *)
(* and format_results.                                                     *)
(*                                                                         *)
(* Numbers are exact rationals [n, d] in lowest terms with d > 0; the      *)
(* record with d = 0 stands for the floating-point NaN.  Vectors are       *)
(* sequences of rationals and matrices are sequences of rows.              *)
(***************************************************************************)
EXTENDS Integers, Sequences, FiniteSets, TLC

VARIABLES pc, op, args, locals, ret

vars == <<pc, op, args, locals, ret>>

(***************************************************************************)
(* Bounds of the model.                                                    *)
(***************************************************************************)
\* order of the block system: N + m <= MaxDim
MaxDim == 3
\* suitable: number of constraints and of variables of the problem
MaxCons == 2
MaxProbVars == 2
\* get_sym_data: number of variable objects, length of a variables() list
MaxVars == 3
MaxOccur == 3
\* format_results: length of the vectors handed in
MaxVec == 2

(***************************************************************************)
(* Rational arithmetic (the floats of numpy, idealised as exact).          *)
(***************************************************************************)
Abs(i) == IF i < 0 THEN -i ELSE i

RECURSIVE GCD(_, _)
GCD(a, b) == IF b = 0 THEN a ELSE GCD(b, a % b)

NaN == [n |-> 0, d |-> 0]

IsNaN(a) == a.d = 0

Norm(n, d) ==
    IF d = 0 THEN NaN
    ELSE LET g == GCD(Abs(n), Abs(d))
             s == IF d < 0 THEN -1 ELSE 1
         IN  [n |-> s * (n \div g), d |-> s * (d \div g)]

R(i) == [n |-> i, d |-> 1]

RAdd(a, b) == IF IsNaN(a) \/ IsNaN(b) THEN NaN ELSE Norm(a.n * b.d + b.n * a.d, a.d * b.d)

RMul(a, b) == IF IsNaN(a) \/ IsNaN(b) THEN NaN ELSE Norm(a.n * b.n, a.d * b.d)

RNeg(a) == IF IsNaN(a) THEN NaN ELSE [n |-> -a.n, d |-> a.d]

RDiv(a, b) == IF IsNaN(a) \/ IsNaN(b) THEN NaN ELSE Norm(a.n * b.d, a.d * b.n)

(***************************************************************************)
(* Dense linear algebra on sequences.                                      *)
(***************************************************************************)
RECURSIVE VSum(_)
VSum(v) == IF v = <<>> THEN R(0) ELSE RAdd(Head(v), VSum(Tail(v)))

\* np.dot of two vectors
Dot(u, v) == VSum([i \in 1..Len(u) |-> RMul(u[i], v[i])])

\* P*x : matrix times vector
MatVec(A, x) == [i \in 1..Len(A) |-> Dot(A[i], x)]

VNeg(v) == [i \in 1..Len(v) |-> RNeg(v[i])]

\* the transpose of a matrix of `cols` columns (cols is needed when it has no row)
Transpose(A, cols) == [j \in 1..cols |-> [i \in 1..Len(A) |-> A[i][j]]]

DropAt(s, k) == [i \in 1..(Len(s) - 1) |-> IF i < k THEN s[i] ELSE s[i + 1]]

LCM(a, b) == (a * b) \div GCD(a, b)

RECURSIVE VDenom(_)
VDenom(v) == IF v = <<>> THEN 1 ELSE LCM(Head(v).d, VDenom(Tail(v)))

\* the least common denominator of the entries of a matrix
RECURSIVE MDenom(_)
MDenom(A) == IF A = <<>> THEN 1 ELSE LCM(VDenom(Head(A)), MDenom(Tail(A)))

\* the determinant of an integer matrix, expanded along its first row
RECURSIVE IDet(_)
IDet(A) ==
    IF Len(A) = 0 THEN 1
    ELSE IF Len(A) = 1 THEN A[1][1]
    ELSE LET rest == Tail(A)
             Sub(j) == [i \in 1..Len(rest) |-> DropAt(rest[i], j)]
             RECURSIVE Expand(_)
             Expand(j) ==
                 IF j > Len(A) THEN 0
                 ELSE (IF A[1][j] = 0 THEN 0
                       ELSE (IF j % 2 = 1 THEN 1 ELSE -1) * A[1][j] * IDet(Sub(j)))
                      + Expand(j + 1)
         IN  Expand(1)

\* s * A as an integer matrix, for s a common denominator of A's entries
Scaled(A, s) == [i \in 1..Len(A) |-> [j \in 1..Len(A[i]) |-> (A[i][j].n * s) \div A[i][j].d]]

Det(A) == LET s == MDenom(A) IN Norm(IDet(Scaled(A, s)), s ^ Len(A))

ReplaceCol(A, j, b) == [i \in 1..Len(A) |-> [k \in 1..Len(A) |-> IF k = j THEN b[i] ELSE A[i][k]]]

IsSingular(A) == IDet(Scaled(A, MDenom(A))) = 0

\* the solution of A x = b for a nonsingular A, by Cramer's rule on the
\* integer system (sA * A) x = (sA / sB) * (sB * b)
Solution(A, b) ==
    LET sA == MDenom(A)
        sB == VDenom(b)
        IA == Scaled(A, sA)
        Ib == [i \in 1..Len(b) |-> (b[i].n * sB) \div b[i].d]
        dt == IDet(IA)
    IN  [j \in 1..Len(A) |-> Norm(sA * IDet(ReplaceCol(IA, j, Ib)), sB * dt)]

(***************************************************************************)
(* Python values that may be None.                                         *)
(***************************************************************************)
None == [some |-> FALSE]

Some(v) == [some |-> TRUE, val |-> v]

(***************************************************************************)
(* LS.solve, lines 129-178.  The objective is given by the matrix M that   *)
(* u.quad_coeffs returns for it and each constraint by the pair (A, b)     *)
(* that u.affine_coeffs returns for it: the extractors are collaborators.  *)
(***************************************************************************)
\* P = M[:N, :N]
ExtractP(M, N) == [i \in 1..N |-> [j \in 1..N |-> M[i][j]]]

\* q taken from the final column alone, the final row ignored
ExtractQ_ColumnOnly(M, N) == [i \in 1..N |-> M[i][N + 1]]

\* q = (M[:N, N] + M[N, :N].transpose())/2
ExtractQ(M, N) == [i \in 1..N |-> RDiv(RAdd(M[i][N + 1], M[N + 1][i]), R(2))]

\* r = M[N, N]
ExtractR(M, N) == M[N + 1][N + 1]

\* As = sp.vstack([C[0] for C in Cs])
RECURSIVE VStackA(_)
VStackA(Cs) == IF Cs = <<>> THEN <<>> ELSE Head(Cs).A \o VStackA(Tail(Cs))

\* bs = np.vstack([C[1] for C in Cs])
RECURSIVE VStackB(_)
VStackB(Cs) == IF Cs = <<>> THEN <<>> ELSE Head(Cs).b \o VStackB(Tail(Cs))

\* the block matrix with an identity, not an empty block, at the lower right
BlockMatrix_Regularised(P, As, N, m) ==
    LET AsT == Transpose(As, N)
    IN  [i \in 1..(N + m) |->
            IF i <= N THEN P[i] \o AsT[i]
            ELSE As[i - N] \o [j \in 1..m |-> IF j = i - N THEN R(1) ELSE R(0)]]

\* AA = sp.bmat([[P, As.transpose()], [As, None]])
BlockMatrix(P, As, N, m) ==
    LET AsT == Transpose(As, N)
    IN  [i \in 1..(N + m) |->
            IF i <= N THEN P[i] \o AsT[i]
            ELSE As[i - N] \o [j \in 1..m |-> R(0)]]

\* AA and BB of the branch taken on len(constraints) > 0
AssembleAA(P, constraints, N) ==
    IF Len(constraints) > 0
    THEN BlockMatrix(P, VStackA(constraints), N, Len(VStackB(constraints)))
    ELSE P

AssembleBB(q, constraints) ==
    IF Len(constraints) > 0
    THEN VNeg(q) \o VNeg(VStackB(constraints))
    ELSE VNeg(q)

(***************************************************************************)
(* SLA.spsolve(AA, BB).  A nonsingular system is solved.  How the library  *)
(* reports a singular one is not fixed by this repository: it raises an    *)
(* ArithmeticError, raises another condition (scipy's MatrixRankWarning    *)
(* when warnings are errors) or returns a vector of NaN (scipy's default,  *)
(* after warning).  `how` selects among these outcomes.                    *)
(***************************************************************************)
SingularOutcomes == {"ArithmeticError", "MatrixRankWarning", "nan"}

spsolve(AA, BB, how) ==
    IF ~IsSingular(AA) THEN [kind |-> "value", val |-> Solution(AA, BB)]
    ELSE IF how = "nan" THEN [kind |-> "value", val |-> [i \in 1..Len(AA) |-> NaN]]
    ELSE [kind |-> "raise", exc |-> how]

\* the objective value with the linear term counted once
ObjectiveValue_SingleLinear(P, q, r, x) ==
    RAdd(RAdd(Dot(x, MatVec(P, x)), Dot(q, x)), r)

\* p_star = (s+2*t)[0, 0] + r, with s = x'(P x) and t = q'x
ObjectiveValue(P, q, r, x) ==
    LET s == Dot(x, MatVec(P, x))
        t == Dot(q, x)
    IN  RAdd(RAdd(s, RMul(R(2), t)), r)

\* format_results deciding on the dual, not on the primal
format_results_OnDual(x, nu, p_star) ==
    IF nu # None
    THEN [value |-> p_star, status |-> "optimal", primal |-> x, eq_dual |-> nu]
    ELSE [status |-> "infeasible"]

\* LS.format_results, lines 198-206
format_results(x, nu, p_star) ==
    IF x # None
    THEN [value |-> p_star, status |-> "optimal", primal |-> x, eq_dual |-> nu]
    ELSE [status |-> "infeasible"]

\* x = np.array(BB[:N])
PrimalBlock(sol, N) == SubSeq(sol, 1, N)

\* the dual block starting one entry early
DualBlock_OffByOne(sol, N) == SubSeq(sol, N, Len(sol))

\* nu = np.array(BB[N:])
DualBlock(sol, N) == SubSeq(sol, N + 1, Len(sol))

\* The whole of LS.solve: its locals and what the call gives the caller.
solve(M, constraints, N, how) ==
    LET P == ExtractP(M, N)
        q == ExtractQ(M, N)
        r == ExtractR(M, N)
        AA == AssembleAA(P, constraints, N)
        BB == AssembleBB(q, constraints)
        out == spsolve(AA, BB, how)
        base == [P |-> P, q |-> q, r |-> r, AA |-> AA, BB |-> BB, out |-> out]
    IN  IF out.kind = "value"
        THEN LET x == PrimalBlock(out.val, N)
                 nu == DualBlock(out.val, N)
                 p_star == ObjectiveValue(P, q, r, x)
             IN  [locals |-> base,
                  ret |-> [kind |-> "value",
                           val |-> format_results(Some(x), Some(nu), Some(p_star))]]
        ELSE IF out.exc = "ArithmeticError"
        THEN [locals |-> base,
              ret |-> [kind |-> "value", val |-> format_results(None, None, None)]]
        ELSE [locals |-> base, ret |-> [kind |-> "raise", exc |-> out.exc]]

(***************************************************************************)
(* The inputs of solve that are enumerated: the extended quadratic form M  *)
(* of the objective, with a symmetric quadratic block and a final row and  *)
(* column that need not agree, and the rows (A_i, b_i) of the constraints. *)
(***************************************************************************)
PDiag == {0, 2}

POff == {0, 1}

\* an entry of the final column with the entry of the final row across it
QPairs == {<<-1, 1>>, <<1, 1>>, <<-1, 0>>}

RConst == {0, 1}

ACoef == {0, 1}

BCoef == {-1, 0}

QuadForm(N, d, o, qq, r) ==
    [i \in 1..(N + 1) |-> [j \in 1..(N + 1) |->
        IF i <= N /\ j <= N
        THEN (IF i = j THEN R(d[i]) ELSE IF Abs(i - j) = 1 THEN R(o) ELSE R(0))
        ELSE IF j = N + 1 /\ i <= N THEN R(qq[i][1])
        ELSE IF i = N + 1 /\ j <= N THEN R(qq[j][2])
        ELSE R(r)]]

Objectives(N) ==
    {QuadForm(N, d, o, qq, r) :
        d \in [1..N -> PDiag], o \in POff, qq \in [1..N -> QPairs], r \in RConst}

\* the affine coefficients of one constraint of k rows
Blocks(N, k) ==
    {[A |-> [i \in 1..k |-> [j \in 1..N |-> R(a[i][j])]], b |-> [i \in 1..k |-> R(c[i])]] :
        a \in [1..k -> [1..N -> ACoef]], c \in [1..k -> BCoef]}

\* the lists of constraints of at most `budget` rows in all
RECURSIVE ConstraintLists(_, _)
ConstraintLists(N, budget) ==
    {<<>>} \cup UNION {UNION {{<<blk>> \o rest : rest \in ConstraintLists(N, budget - k)} :
                                blk \in Blocks(N, k)} : k \in 1..budget}

(***************************************************************************)
(* LS.suitable, lines 79-89.  A problem is given by what the predicate     *)
(* asks of it: the three answers of the expression tree, the class of each *)
(* constraint and the class and the domain of each variable.               *)
(***************************************************************************)
ConstraintClasses == {"EqConstraint", "LeqConstraint", "PSDConstraint"}

VariableClasses == {"Variable", "SymmetricUpperTri", "Bool"}

\* the classes a class derives from, itself included
Bases(cls) ==
    CASE cls = "SymmetricUpperTri" -> {"SymmetricUpperTri", "Variable"}
      [] cls = "Bool" -> {"Bool", "Variable"}
      [] cls = "EqConstraint" -> {"EqConstraint", "LeqConstraint"}
      [] cls = "PSDConstraint" -> {"PSDConstraint", "LeqConstraint"}
      [] OTHER -> {cls}

\* allowedVariables = (var.variable.Variable, var.symmetric.SymmetricUpperTri)
allowedVariables == {"Variable", "SymmetricUpperTri"}

\* the type test done with isinstance, which accepts subclasses
TypeAllowed_Isinstance(v) == Bases(v.type) \cap allowedVariables # {}

\* type(v) in allowedVariables
TypeAllowed(v) == v.type \in allowedVariables

\* isinstance(c, eqc.EqConstraint)
IsEqConstraint(c) == "EqConstraint" \in Bases(c)

\* the operands of the `and` chain, in the order they stand
Conjuncts(prob) ==
    << prob.is_dcp,
       prob.is_quadratic,
       ~prob.is_affine,
       \A i \in DOMAIN prob.constraints : IsEqConstraint(prob.constraints[i]),
       \A i \in DOMAIN prob.variables : TypeAllowed(prob.variables[i]),
       \A i \in DOMAIN prob.variables : prob.variables[i].domain = 0 >>

\* `and` stops at its first false operand: how many operands are evaluated
RECURSIVE Evaluated(_, _)
Evaluated(cs, k) ==
    IF k = Len(cs) \/ ~cs[k] THEN k ELSE Evaluated(cs, k + 1)

suitable(prob) ==
    LET cs == Conjuncts(prob)
        k == Evaluated(cs, 1)
    IN  [ret |-> cs[k], evaluated |-> k]

Problems(maxCons, maxVars) ==
    {[is_dcp |-> d, is_quadratic |-> q, is_affine |-> a, constraints |-> cs, variables |-> vs] :
        d \in BOOLEAN, q \in BOOLEAN, a \in BOOLEAN,
        cs \in UNION {[1..k -> ConstraintClasses] : k \in 0..maxCons},
        vs \in UNION {[1..k -> [type : VariableClasses, domain : {0, 1}]] : k \in 0..maxVars}}

(***************************************************************************)
(* LS.get_sym_data, lines 91-111.  A variable object has an id of its own  *)
(* and a size (rows, cols).                                                *)
(***************************************************************************)
Sizes == {<<1, 1>>, <<3, 2>>}

RECURSIVE Concat(_)
Concat(lists) == IF lists = <<>> THEN <<>> ELSE Head(lists) \o Concat(Tail(lists))

\* vars_ = objective.variables(); for c in constraints: vars_ += c.variables()
CollectVars(objective, constraints) ==
    objective.vars \o Concat([i \in 1..Len(constraints) |-> constraints[i].vars])

Range(s) == {s[i] : i \in DOMAIN s}

\* the lists without repetition of the elements of S
Orderings(S) ==
    {f \in [1..Cardinality(S) -> S] : \A i, j \in 1..Cardinality(S) : f[i] = f[j] => i = j}

\* the variables listed without removing the repeated ones
ListOfSet_NoDedup(vars_) == {vars_}

\* list(set(vars_)): the order in which a set is listed is not fixed
ListOfSet(vars_) == Orderings(Range(vars_))

Put(dict, key, value) == [k \in DOMAIN dict \cup {key} |-> IF k = key THEN value ELSE dict[k]]

\* the loop of get_var_offsets over what is left of `variables`
RECURSIVE OffsetsLoop(_, _, _, _)
OffsetsLoop(variables, var_offsets, var_sizes, vert_offset) ==
    IF variables = <<>> THEN <<var_offsets, var_sizes, vert_offset>>
    ELSE LET x == Head(variables)
         IN  OffsetsLoop(Tail(variables),
                         Put(var_offsets, x.id, vert_offset),
                         Put(var_sizes, x.id, x.size),
                         vert_offset + x.size[1] * x.size[2])

get_var_offsets(variables) == OffsetsLoop(variables, <<>>, <<>>, 0)

\* FakeSymData.__init__ with `order` the list that list(set(vars_)) gave
FakeSymData(objective, constraints, order) ==
    LET t == get_var_offsets(order)
    IN  [constr_map |-> [eq |-> constraints],
         var_offsets |-> t[1], var_sizes |-> t[2], x_length |-> t[3]]

\* the occurrences occ split into an objective of the first k and constraints
\* of the others, one constraint each or a single one of them all
SplitVars(occ, k, together) ==
    LET rest == SubSeq(occ, k + 1, Len(occ))
    IN  [objective |-> [vars |-> SubSeq(occ, 1, k)],
         constraints |-> IF rest = <<>> THEN <<>>
                         ELSE IF together THEN << [vars |-> rest] >>
                         ELSE [i \in 1..Len(rest) |-> [vars |-> << rest[i] >>]]]

SymInputs(maxVars, maxOccur) ==
    UNION {UNION {{SplitVars([i \in 1..n |-> [id |-> ids[i], size |-> size[ids[i]]]], k, together) :
                        k \in 1..n, together \in BOOLEAN} :
                    ids \in [1..n -> 1..maxVars], size \in [1..maxVars -> Sizes]} :
           n \in 1..maxOccur}

(***************************************************************************)
(* The values format_results is handed when it is called on its own.       *)
(***************************************************************************)
Scalars == {R(0), R(1), NaN}

Vectors(lo, hi) == UNION {[1..k -> Scalars] : k \in lo..hi}

Init ==
    /\ pc = "idle"
    /\ op = "none"
    /\ args = <<>>
    /\ locals = <<>>
    /\ ret = [kind |-> "none"]

Return ==
    /\ pc = "done"
    /\ pc' = "idle"
    /\ op' = "none"
    /\ args' = <<>>
    /\ locals' = <<>>
    /\ ret' = [kind |-> "none"]

Call_solve ==
    /\ pc = "idle"
    /\ \E N \in 1..MaxDim :
         LET objectives == Objectives(N)
             lists == ConstraintLists(N, MaxDim - N)
         IN  \E M \in objectives, constraints \in lists :
                args' = [M |-> M, constraints |-> constraints, N |-> N]
    /\ pc' = "called"
    /\ op' = "solve"
    /\ UNCHANGED <<locals, ret>>

Run_solve ==
    /\ pc = "called"
    /\ op = "solve"
    /\ LET P == ExtractP(args.M, args.N)
           AA == AssembleAA(P, args.constraints, args.N)
           \* the outcome of a singular system is open; a regular one has one outcome
           hows == IF IsSingular(AA) THEN SingularOutcomes ELSE {"nan"}
       IN  \E how \in hows :
              LET res == solve(args.M, args.constraints, args.N, how)
              IN  /\ locals' = res.locals
                  /\ ret' = res.ret
    /\ pc' = "done"
    /\ UNCHANGED <<op, args>>

NextSolve == Call_solve \/ Run_solve \/ Return

SpecSolve == Init /\ [][NextSolve]_vars

Call_suitable ==
    /\ pc = "idle"
    /\ \E prob \in Problems(MaxCons, MaxProbVars) :
         /\ prob.is_affine => prob.is_quadratic
         /\ args' = [prob |-> prob]
    /\ pc' = "called"
    /\ op' = "suitable"
    /\ UNCHANGED <<locals, ret>>

Run_suitable ==
    /\ pc = "called"
    /\ op = "suitable"
    /\ LET res == suitable(args.prob)
       IN  /\ locals' = [evaluated |-> res.evaluated]
           /\ ret' = [kind |-> "value", val |-> res.ret]
    /\ pc' = "done"
    /\ UNCHANGED <<op, args>>

NextSuitable == Call_suitable \/ Run_suitable \/ Return

SpecSuitable == Init /\ [][NextSuitable]_vars

Call_get_sym_data ==
    /\ pc = "idle"
    /\ \E input \in SymInputs(MaxVars, MaxOccur) : args' = input
    /\ pc' = "called"
    /\ op' = "get_sym_data"
    /\ UNCHANGED <<locals, ret>>

Run_get_sym_data ==
    /\ pc = "called"
    /\ op = "get_sym_data"
    /\ LET vars_ == CollectVars(args.objective, args.constraints)
       IN  \E order \in ListOfSet(vars_) :
              /\ locals' = [vars_ |-> order]
              /\ ret' = [kind |-> "value",
                         val |-> FakeSymData(args.objective, args.constraints, order)]
    /\ pc' = "done"
    /\ UNCHANGED <<op, args>>

NextSymData == Call_get_sym_data \/ Run_get_sym_data \/ Return

SpecSymData == Init /\ [][NextSymData]_vars

Call_format_results ==
    /\ pc = "idle"
    /\ \E x \in {None} \cup {Some(v) : v \in Vectors(1, MaxVec)},
          nu \in {None} \cup {Some(v) : v \in Vectors(0, MaxVec)},
          p_star \in {None} \cup {Some(v) : v \in Scalars} :
         args' = [x |-> x, nu |-> nu, p_star |-> p_star]
    /\ pc' = "called"
    /\ op' = "format_results"
    /\ UNCHANGED <<locals, ret>>

Run_format_results ==
    /\ pc = "called"
    /\ op = "format_results"
    /\ ret' = [kind |-> "value", val |-> format_results(args.x, args.nu, args.p_star)]
    /\ pc' = "done"
    /\ UNCHANGED <<op, args, locals>>

NextResults ==
    \/ Call_format_results
    \/ Run_format_results
    \/ Call_solve
    \/ Run_solve
    \/ Return

SpecResults == Init /\ [][NextResults]_vars

Next ==
    \/ Call_suitable
    \/ Run_suitable
    \/ Call_get_sym_data
    \/ Run_get_sym_data
    \/ Call_solve
    \/ Run_solve
    \/ Call_format_results
    \/ Run_format_results
    \/ Return

Spec == Init /\ [][Next]_vars
(***************************************************************************)
(* Properties.                                                             *)
(***************************************************************************)
Done(o) == pc = "done" /\ op = o

Returned == pc = "done" /\ ret.kind = "value"

\* the stacked affine coefficients of the call's constraints
StackedA == VStackA(args.constraints)

StackedB == VStackB(args.constraints)

StackedRows == Len(StackedB)

IsFinite(v) == \A i \in DOMAIN v : ~IsNaN(v[i])

\* symmetric, and every leading principal minor positive
PositiveDefinite(P) ==
    /\ \A i, j \in 1..Len(P) : P[i][j] = P[j][i]
    /\ \A k \in 1..Len(P) : Det([i \in 1..k |-> [j \in 1..k |-> P[i][j]]]).n > 0

\* some m columns of the m rows of A have a nonzero determinant
FullRowRank(A, N) ==
    LET m == Len(A)
    IN  \E cols \in SUBSET (1..N) :
          /\ Cardinality(cols) = m
          /\ LET pick[k \in 0..N] ==
                     IF k = 0 THEN <<>>
                     ELSE IF k \in cols THEN Append(pick[k - 1], k) ELSE pick[k - 1]
             IN  Det([i \in 1..m |-> [j \in 1..m |-> A[i][pick[N][j]]]]).n # 0

\* x'Px + 2 q'x + r as a double sum over the entries
QuadraticForm(P, q, r, x) ==
    LET n == Len(x)
        RECURSIVE Row(_, _)
        Row(i, j) == IF j > n THEN R(0)
                     ELSE RAdd(RMul(RMul(x[i], P[i][j]), x[j]), Row(i, j + 1))
        RECURSIVE Quad(_)
        Quad(i) == IF i > n THEN R(0) ELSE RAdd(Row(i, 1), Quad(i + 1))
        RECURSIVE Lin(_)
        Lin(i) == IF i > n THEN R(0) ELSE RAdd(RMul(R(2), RMul(q[i], x[i])), Lin(i + 1))
    IN  RAdd(RAdd(Quad(1), Lin(1)), r)

\* C9: P is the leading N x N block of M, r its last diagonal entry, and q
\* the elementwise average of the first N entries of M's last column and of
\* M's last row, also when that row and column differ.
C9_SymmetryRestoration ==
    Done("solve") =>
        LET N == args.N
            M == args.M
        IN  /\ Len(locals.P) = N /\ Len(locals.q) = N
            /\ \A i, j \in 1..N : locals.P[i][j] = M[i][j]
            /\ \A i \in 1..N : RMul(R(2), locals.q[i]) = RAdd(M[i][N + 1], M[N + 1][i])
            /\ locals.r = M[N + 1][N + 1]
            /\ \A i \in 1..N : locals.BB[i] = RNeg(locals.q[i])
            /\ \A i, j \in 1..N : locals.AA[i][j] = locals.P[i][j]

C9_Witness ==
    /\ Done("solve")
    /\ args.N >= 2
    /\ \E i \in 1..args.N : args.M[i][args.N + 1] # args.M[args.N + 1][i]
    /\ \E i \in 1..args.N : locals.q[i].d = 2

\* C10: when the direct solve gives a vector, the primal is its first N
\* entries, the dual the remaining ones, as many as there are stacked
\* constraint rows (none without constraints), and the objective value is
\* x'Px + 2 q'x + r at that primal for the extracted P, q, r.
C10_SplitAndValue ==
    (Done("solve") /\ locals.out.kind = "value") =>
        LET N == args.N
            sol == locals.out.val
            res == ret.val
        IN  /\ Returned
            /\ res.status = "optimal"
            /\ Len(sol) = N + StackedRows
            /\ Len(res.primal.val) = N
            /\ \A i \in 1..N : res.primal.val[i] = sol[i]
            /\ Len(res.eq_dual.val) = StackedRows
            /\ \A i \in 1..StackedRows : res.eq_dual.val[i] = sol[N + i]
            /\ (args.constraints = <<>> => res.eq_dual.val = <<>>)
            /\ res.value.val = QuadraticForm(locals.P, locals.q, locals.r, res.primal.val)

C10_Witness ==
    /\ Done("solve")
    /\ locals.out.kind = "value"
    /\ StackedRows >= 1
    /\ IsFinite(locals.out.val)
    /\ ret.val.eq_dual.val[1].n # 0
    /\ ret.val.value.val.n # 0

\* C7: without constraints and with P symmetric positive definite the
\* system solved is P x = -q itself, not a block system, the status is
\* optimal, the primal is -P^{-1} q and the value is -q'P^{-1}q + r, which
\* for that primal is q'x + r.
C7_Unconstrained ==
    (Done("solve") /\ args.constraints = <<>> /\ PositiveDefinite(locals.P)) =>
        /\ locals.AA = locals.P
        /\ locals.BB = VNeg(locals.q)
        /\ Returned
        /\ ret.val.status = "optimal"
        /\ IsFinite(ret.val.primal.val)
        /\ MatVec(locals.P, ret.val.primal.val) = VNeg(locals.q)
        /\ ret.val.value.val = RAdd(Dot(locals.q, ret.val.primal.val), locals.r)

C7_Witness ==
    /\ Done("solve")
    /\ args.constraints = <<>>
    /\ args.N >= 2
    /\ PositiveDefinite(locals.P)
    /\ locals.P[1][2].n # 0
    /\ ret.val.status = "optimal"
    /\ Dot(locals.q, ret.val.primal.val).n # 0
\* the direct solve did not produce a solution: it raised, or gave NaN
SolveFailed ==
    \/ locals.out.kind = "raise"
    \/ locals.out.kind = "value" /\ ~IsFinite(locals.out.val)

\* C1: a numerical failure of the direct solve is caught: the call returns
\* a result whose status is infeasible, with no primal, dual or value, and
\* raises nothing.
C1_FailureIsInfeasible ==
    (Done("solve") /\ SolveFailed) =>
        /\ Returned
        /\ ret.val.status = "infeasible"
        /\ DOMAIN ret.val = {"status"}

\* C2: whenever the assembled matrix AA is exactly singular the direct solve
\* raises the numeric failure that solve catches, and the call returns
\* status infeasible and raises nothing.
C2_SingularIsInfeasible ==
    Done("solve") =>
        /\ IsSingular(locals.AA) <=>
              (locals.out.kind = "raise" /\ locals.out.exc = "ArithmeticError")
        /\ IsSingular(locals.AA) => (Returned /\ ret.val.status = "infeasible")

\* C6: with at least one constraint, P positive definite (hence positive
\* definite on the null space of A) and A of full row rank, the returned
\* primal and dual satisfy A x + b = 0 and 2 P x + 2 q + A' nu = 0.
C6_ConstrainedOptimality ==
    (/\ Done("solve")
     /\ args.constraints # <<>>
     /\ PositiveDefinite(locals.P)
     /\ FullRowRank(StackedA, args.N)) =>
        /\ Returned
        /\ ret.val.status = "optimal"
        /\ LET x == ret.val.primal.val
               nu == ret.val.eq_dual.val
               N == args.N
               AT == Transpose(StackedA, N)
           IN  /\ \A i \in 1..StackedRows : RAdd(Dot(StackedA[i], x), StackedB[i]) = R(0)
               /\ \A i \in 1..N :
                     RAdd(RAdd(RMul(R(2), Dot(locals.P[i], x)), RMul(R(2), locals.q[i])),
                          Dot(AT[i], nu)) = R(0)

\* the call has one constraint of one row, with A = 0 and b = 0
ZeroRowConstraint ==
    /\ Len(args.constraints) = 1
    /\ StackedRows = 1
    /\ \A j \in 1..args.N : StackedA[1][j] = R(0)
    /\ StackedB[1] = R(0)

\* how the library reported the singular system of this call
ReportedAs == IF locals.out.kind = "raise" THEN locals.out.exc ELSE "nan"

\* two calls gave the same status, primal and objective value
SameResult(r1, r2) ==
    /\ r1.kind = r2.kind
    /\ r1.kind = "raise" => r1.exc = r2.exc
    /\ r1.kind = "value" =>
          /\ r1.val.status = r2.val.status
          /\ r1.val.status = "optimal" =>
                /\ r1.val.primal = r2.val.primal
                /\ r1.val.value = r2.val.value

\* C8 as stated: the call with a single zero-row constraint gives the same
\* status, primal and objective value as the call with no constraint on the
\* same M.
C8_BranchesAgree ==
    (Done("solve") /\ ZeroRowConstraint) =>
        SameResult(ret, solve(args.M, <<>>, args.N, ReportedAs).ret)

\* C8 amended: with a single zero-row constraint the block matrix is
\* singular whatever P is, so the call never returns a solved system; when
\* P is nonsingular the call with no constraint returns optimal with the
\* finite primal solving P x = -q, and the two results differ.
C8_ZeroRowIsSingular ==
    (Done("solve") /\ ZeroRowConstraint) =>
        LET other == solve(args.M, <<>>, args.N, ReportedAs).ret
        IN  /\ IsSingular(locals.AA)
            /\ SolveFailed
            /\ ~IsSingular(locals.P) =>
                  /\ other.kind = "value"
                  /\ other.val.status = "optimal"
                  /\ IsFinite(other.val.primal.val)
                  /\ MatVec(locals.P, other.val.primal.val) = VNeg(locals.q)
                  /\ ~SameResult(ret, other)

C8_Witness ==
    /\ Done("solve")
    /\ ZeroRowConstraint
    /\ args.N >= 2
    /\ ~IsSingular(locals.P)
    /\ Returned
\* the five conditions of the applicability check
Conditions(prob) ==
    << prob.is_dcp,
       prob.is_quadratic /\ ~prob.is_affine,
       \A i \in DOMAIN prob.constraints : prob.constraints[i] = "EqConstraint",
       \A i \in DOMAIN prob.variables :
            prob.variables[i].type \in {"Variable", "SymmetricUpperTri"},
       \A i \in DOMAIN prob.variables : prob.variables[i].domain = 0 >>

\* the condition that the k-th operand of the `and` chain belongs to
ConditionOf(k) == IF k <= 2 THEN k ELSE k - 1

\* C3: suitable returns true exactly when the five conditions all hold; when
\* one fails it returns false at the first failing one, evaluating nothing
\* after it; and the problem is left as it was.
C3_Suitable ==
    [][(pc = "called" /\ op = "suitable") =>
          LET cond == Conditions(args.prob)
              last == ConditionOf(locals'.evaluated)
          IN  /\ pc' = "done"
              /\ args' = args
              /\ ret'.kind = "value"
              /\ ret'.val = (\A c \in 1..5 : cond[c])
              /\ \A c \in 1..(last - 1) : cond[c]
              /\ ~ret'.val => ~cond[last]]_vars

C3_Witness ==
    /\ Done("suitable")
    /\ ret.val = TRUE
    /\ Len(args.prob.constraints) >= 2
    /\ \E i, j \in DOMAIN args.prob.variables :
          /\ args.prob.variables[i].type = "Variable"
          /\ args.prob.variables[j].type = "SymmetricUpperTri"

\* C4: format_results gives status infeasible when the primal is undefined
\* and otherwise status optimal with the four keys holding the values it
\* was given; a call of solve or format_results that returns gives no
\* status other than optimal and infeasible.
C4_FormatResults ==
    /\ Done("format_results") =>
          /\ Returned
          /\ args.x = None => ret.val.status = "infeasible"
          /\ args.x # None =>
                /\ ret.val.status = "optimal"
                /\ DOMAIN ret.val = {"status", "value", "primal", "eq_dual"}
                /\ ret.val.value = args.p_star
                /\ ret.val.primal = args.x
                /\ ret.val.eq_dual = args.nu
    /\ (Returned /\ op \in {"solve", "format_results"}) =>
          ret.val.status \in {"optimal", "infeasible"}

C4_Witness ==
    /\ Done("format_results")
    /\ args.x # None
    /\ args.nu = None
    /\ ret.val.status = "optimal"

\* the flattened positions given to the variable id
Positions(sym, id) ==
    LET len == sym.var_sizes[id][1] * sym.var_sizes[id][2]
    IN  sym.var_offsets[id] .. (sym.var_offsets[id] + len - 1)

RECURSIVE SumOver(_, _)
SumOver(S, f) ==
    IF S = {} THEN 0
    ELSE LET e == CHOOSE e \in S : TRUE IN f[e] + SumOver(S \ {e}, f)

\* C5: every distinct variable of the objective and the constraints gets one
\* offset; the ranges [offset, offset + rows*cols) are pairwise disjoint,
\* cover 0 .. N-1 without a gap, and their lengths add up to N = x_length.
C5_OffsetsPartition ==
    Done("get_sym_data") =>
        LET sym == ret.val
            given == Range(CollectVars(args.objective, args.constraints))
            ids == {v.id : v \in given}
        IN  /\ DOMAIN sym.var_offsets = ids
            /\ DOMAIN sym.var_sizes = ids
            /\ \A v \in given : sym.var_sizes[v.id] = v.size
            /\ \A a, b \in ids : a # b => Positions(sym, a) \cap Positions(sym, b) = {}
            /\ UNION {Positions(sym, a) : a \in ids} = 0 .. (sym.x_length - 1)
            /\ SumOver(ids, [a \in ids |-> sym.var_sizes[a][1] * sym.var_sizes[a][2]])
                  = sym.x_length

C5_Witness ==
    /\ Done("get_sym_data")
    /\ Cardinality(DOMAIN ret.val.var_offsets) >= 2
    /\ \E i \in DOMAIN args.constraints :
          Range(args.constraints[i].vars) \cap Range(args.objective.vars) # {}
    /\ \E a \in DOMAIN ret.val.var_offsets : ret.val.var_offsets[a] > 1

====
